---- MODULE Spec2Model ----
(***************************************************************************)
(* Model of src/multi-card-payment.js: the Card class and the              *)
(* MultiCardPaymentProcessor (registerCard, savePaymentProfile,            *)
(* processPayment, logTransaction, refundTransaction).                     *)
(*                                                                         *)
(* Money.  A stored amount (a balance, a total, a charge) is the result of *)
(* parseFloat(x.toFixed(2)); it is modelled as an integer number of cents. *)
(* A number handed in by a caller may carry more than two decimals: it is  *)
(* modelled as an integer number of 1/Sub cent, and toFixed2 is the        *)
(* rounding that takes it to cents.                                        *)
(*                                                                         *)
(* Time.  isExpired() compares the card's expiry date with new Date();     *)
(* `now` is the clock, advanced by Tick.                                   *)
(*                                                                         *)
(* Concurrency.  processPayment is an async function with one await        *)
(* (line 223).  Everything before the await runs as one step               *)
(* (ProcessPaymentCall), everything after it as another                    *)
(* (ProcessPaymentResume); calls suspended at the await are in `pending`.  *)
(* refundTransaction has no await and runs as one step.                    *)
(***************************************************************************)
EXTENDS Integers, Sequences, FiniteSets, TLC

VARIABLES
    registeredCards,     \* this.registeredCards: sequence of Card objects
    transactionHistory,  \* this.transactionHistory: sequence of transaction records
    paymentProfiles,     \* this.paymentProfiles: profile name -> profile or NoProfile
    pending,             \* processPayment calls suspended at the await of line 223
    nextId,              \* number of transaction ids generated so far
    now,                 \* the clock read by new Date()
    returned,            \* what the latest processPayment or refundTransaction
                         \* call to return has returned
    audit                \* per successful payment: balances before its debits,
                         \* and the cards other operations changed since

vars == <<registeredCards, transactionHistory, paymentProfiles, pending,
          nextId, now, returned, audit>>

----------------------------------------------------------------------------
(* Bounds of the model *)

MaxCards == 2      \* cards registered
MaxBal == 2        \* largest opening balance and largest total, in cents
MaxPayments == 2   \* processPayment calls made
MaxRefunds == 1    \* refunds carried out
MaxPending == 2    \* processPayment calls suspended at the same time
MaxNow == 1        \* clock values 0..MaxNow
Sub == 3           \* caller-supplied numbers have a resolution of 1/Sub cent

----------------------------------------------------------------------------
(* Constants of the program *)

MaxCardsPerPayment == 3
ToleranceCents == 1

----------------------------------------------------------------------------
(* Helpers *)

\* the largest transaction id the bounds allow
MaxTxn == MaxPayments + MaxRefunds

Min(a, b) == IF a <= b THEN a ELSE b

Abs(a) == IF a < 0 THEN -a ELSE a

RECURSIVE SumSeq(_)
SumSeq(s) == IF s = <<>> THEN 0 ELSE Head(s) + SumSeq(Tail(s))

\* x.toFixed(2) followed by parseFloat: a number of 1/Sub cent, to the
\* nearest cent.
toFixed2(raw) == (2 * raw + Sub) \div (2 * Sub)

\* A number of cents as a caller writes it.
Cents(c) == Sub * c

Balances == [i \in 1..Len(registeredCards) |-> registeredCards[i].availableBalance]

----------------------------------------------------------------------------
(* class Card *)

\* A card number is a sequence of characters: 0..9 are the digits, any
\* other value (10 stands for '-') is a non-digit character.
CardNumbers == { <<5, 10, 9>>, <<1, 10, 2>> }

\* Expiry dates are clock values; a card whose expiry is MaxNow never
\* expires within the model, one whose expiry is 0 expires at the first Tick.
ExpiryDates == 0..MaxNow

\* constructor: availableBalance = parseFloat(availableBalance.toFixed(2))
Card(cardNumber, expiryDate, availableBalance) ==
    [ cardNumber       |-> cardNumber,
      expiryDate       |-> expiryDate,
      availableBalance |-> toFixed2(availableBalance) ]

\* isExpired(): expiryDate < new Date()
isExpired(card) == card.expiryDate < now

\* this.cardNumber.replace(/\D/g, '')
StripNonDigits(cardNumber) == SelectSeq(cardNumber, LAMBDA c : c \in 0..9)

\* The loop of validateCard: digits from the right, every second one doubled.
RECURSIVE LuhnSum(_, _, _)
LuhnSum(digits, i, shouldDouble) ==
    IF i < 1 THEN 0
    ELSE LET d == digits[i]
             doubled == IF 2 * d > 9 THEN 2 * d - 9 ELSE 2 * d
         IN  (IF shouldDouble THEN doubled ELSE d)
                 + LuhnSum(digits, i - 1, ~shouldDouble)

validateCard(card) ==
    LET digits == StripNonDigits(card.cardNumber)
    IN  LuhnSum(digits, Len(digits), FALSE) % 10 = 0

\* charge without the check of lines 61-68 (a faulty variant, which C3
\* rejects)
ChargeNoFundsCheck(card, amount) ==
    IF amount <= 0 THEN
        [ success |-> FALSE, message |-> "Amount must be greater than zero",
          amountCharged |-> 0, card |-> card ]
    ELSE IF isExpired(card) THEN
        [ success |-> FALSE, message |-> "Card is expired",
          amountCharged |-> 0, card |-> card ]
    ELSE IF ~validateCard(card) THEN
        [ success |-> FALSE, message |-> "Invalid card number",
          amountCharged |-> 0, card |-> card ]
    ELSE
        [ success |-> TRUE, message |-> "Payment successful",
          amountCharged |-> amount,
          card |-> [card EXCEPT !.availableBalance = @ - amount] ]

\* charge(amount): the receipt, and the card as the call leaves it.
\* `amount` is in cents already, so its toFixed(2) changes nothing.
charge(card, amount) ==
    IF amount <= 0 THEN
        [ success |-> FALSE, message |-> "Amount must be greater than zero",
          amountCharged |-> 0, card |-> card ]
    ELSE IF isExpired(card) THEN
        [ success |-> FALSE, message |-> "Card is expired",
          amountCharged |-> 0, card |-> card ]
    ELSE IF ~validateCard(card) THEN
        [ success |-> FALSE, message |-> "Invalid card number",
          amountCharged |-> 0, card |-> card ]
    ELSE IF amount > card.availableBalance THEN
        [ success |-> FALSE, message |-> "Insufficient funds",
          amountCharged |-> 0, card |-> card ]
    ELSE
        [ success |-> TRUE, message |-> "Payment successful",
          amountCharged |-> amount,
          card |-> [card EXCEPT !.availableBalance = @ - amount] ]

----------------------------------------------------------------------------
(* class MultiCardPaymentProcessor: data *)

\* profileName = null
NullName == "null"

ProfileNames == { "p" }

\* customSplitAmounts / splitRatio: null, or an array
Null == [given |-> FALSE, amounts |-> <<>>]

Array(a) == [given |-> TRUE, amounts |-> a]

\* this.paymentProfiles[profileName] when nothing was saved under the name
NoProfile == [saved |-> FALSE, cardIndices |-> <<>>, splitRatio |-> Null]

\* A message: its fixed text, the number it interpolates (a card position,
\* a card index or a transaction id; 0 when it has none) and, for a failed
\* charge, the message of the charge result.
Msg(text, arg, cause) == [text |-> text, arg |-> arg, cause |-> cause]

\* An element of customSplitAmounts stored where charges are expected
\* (lines 250 and 273): a bare number, not a charge receipt.
Number(a) == [number |-> a]

\* charges.push({cardIndex, cardToken, amountCharged, remainingBalance, currency})
Receipt(cardIndex, amountCharged, remainingBalance) ==
    [ cardIndex |-> cardIndex, amountCharged |-> amountCharged,
      remainingBalance |-> remainingBalance ]

\* logTransaction putting the record at the front (a faulty variant, which
\* C18 rejects)
logTransactionUnshift(history, transactionId, status, message, amount, cardIndices, charges) ==
    << [ transactionId |-> transactionId, status |-> status,
         message |-> message, amount |-> amount,
         cardIndices |-> cardIndices, charges |-> charges,
         refundTransactionId |-> 0 ] >> \o history

\* logTransaction: the record pushed onto transactionHistory.  Ids are
\* 1, 2, ...; refundTransactionId = 0 stands for the absent field.
logTransaction(history, transactionId, status, message, amount, cardIndices, charges) ==
    Append(history,
           [ transactionId |-> transactionId, status |-> status,
             message |-> message, amount |-> amount,
             cardIndices |-> cardIndices, charges |-> charges,
             refundTransactionId |-> 0 ])

\* getTransaction: the position of the first record with the id, 0 if none
getTransaction(transactionId) ==
    LET found == { k \in 1..Len(transactionHistory) :
                      transactionHistory[k].transactionId = transactionId }
    IN  IF found = {} THEN 0 ELSE CHOOSE k \in found : \A m \in found : k <= m

\* getTransactionHistory: the array itself, in the order of the pushes
getTransactionHistory == transactionHistory

\* index < 0 || index >= this.registeredCards.length
InvalidIndex(index) == index < 0 \/ index >= Len(registeredCards)

\* The first element of cardIndices that is no index of a registered card:
\* its position, 0 if there is none.
FirstInvalidIndex(cardIndices) ==
    LET bad == { k \in 1..Len(cardIndices) : InvalidIndex(cardIndices[k]) }
    IN  IF bad = {} THEN 0 ELSE CHOOSE k \in bad : \A m \in bad : k <= m

NoMsg == Msg("", 0, "")

\* The object a call returns: success, message, and transactionId (of
\* processPayment) or refundTransactionId (of refundTransaction; 0 when the
\* object has none).
Returned(op, success, message, id) ==
    [op |-> op, success |-> success, message |-> message, id |-> id]

----------------------------------------------------------------------------
(* registerCard, savePaymentProfile *)

\* registerCard(new Card(...)): the card is constructed and pushed.
RegisterCard(cardNumber, expiryDate, availableBalance) ==
    /\ Len(registeredCards) < MaxCards
    /\ registeredCards' =
           Append(registeredCards, Card(cardNumber, expiryDate, availableBalance))
    /\ UNCHANGED <<transactionHistory, paymentProfiles, pending, nextId, now,
                   returned, audit>>

savePaymentProfile(profileName, cardIndices, splitRatio) ==
    LET message ==
            IF Len(cardIndices) = 0 \/ Len(cardIndices) > MaxCardsPerPayment
            THEN Msg("Please provide between 1 and 3 cards", 0, "")
            ELSE IF FirstInvalidIndex(cardIndices) # 0
            THEN Msg("Invalid card index",
                     cardIndices[FirstInvalidIndex(cardIndices)], "")
            ELSE NoMsg
    IN  /\ paymentProfiles' =
               IF message = NoMsg
               THEN [paymentProfiles EXCEPT ![profileName] =
                        [ saved |-> TRUE, cardIndices |-> cardIndices,
                          splitRatio |-> splitRatio ]]
               ELSE paymentProfiles
        /\ UNCHANGED <<registeredCards, transactionHistory, pending, nextId, now,
                       returned, audit>>

----------------------------------------------------------------------------
(* processPayment, up to the await of line 223 *)

\* lines 146-148 without the adjustment of lines 151-153 (a faulty variant,
\* which C11 rejects)
RatioSplitNoResidual(totalAmount, splitRatio) ==
    [i \in 1..Len(splitRatio) |-> Cents(toFixed2(totalAmount * splitRatio[i]))]

\* Lines 146-153.  A ratio is a number of 1/Sub, so totalAmount * ratio is a
\* number of 1/Sub cent; the rounding difference goes to the first amount.
\* The amounts are left as the caller of line 241 finds them: numbers that
\* are yet to be rounded.
RatioSplit(totalAmount, splitRatio) ==
    LET derived == [i \in 1..Len(splitRatio) |-> toFixed2(totalAmount * splitRatio[i])]
        diff == totalAmount - SumSeq(derived)
    IN  [i \in 1..Len(splitRatio) |->
            Cents(IF i = 1 THEN derived[i] + diff ELSE derived[i])]

\* the loop of lines 183-204 reporting the last unusable card instead of the
\* first (a faulty variant, which C7 rejects)
RECURSIVE LastUnusableCard(_, _)
LastUnusableCard(cardIndices, i) ==
    IF i > Len(cardIndices) THEN NoMsg
    ELSE LET card == registeredCards[cardIndices[i] + 1]
             later == LastUnusableCard(cardIndices, i + 1)
         IN  IF later # NoMsg THEN later
             ELSE IF isExpired(card) THEN Msg("Card is expired", i, "")
             ELSE IF ~validateCard(card) THEN Msg("Card has an invalid number", i, "")
             ELSE NoMsg

\* Lines 183-204: the message for the first selected card, from position i
\* on, that is expired or has an invalid number; NoMsg if there is none.
RECURSIVE FirstUnusableCard(_, _)
FirstUnusableCard(cardIndices, i) ==
    IF i > Len(cardIndices) THEN NoMsg
    ELSE LET card == registeredCards[cardIndices[i] + 1]
         IN  IF isExpired(card) THEN Msg("Card is expired", i, "")
             ELSE IF ~validateCard(card) THEN Msg("Card has an invalid number", i, "")
             ELSE FirstUnusableCard(cardIndices, i + 1)

\* lines 207-209 counting the first selected card twice (a faulty variant,
\* which C6 rejects)
totalAvailableBalanceFirstTwice(cardIndices) ==
    registeredCards[cardIndices[1] + 1].availableBalance
        + SumSeq([i \in 1..Len(cardIndices) |->
                     registeredCards[cardIndices[i] + 1].availableBalance])

\* Lines 207-209
totalAvailableBalance(cardIndices) ==
    SumSeq([i \in 1..Len(cardIndices) |->
               registeredCards[cardIndices[i] + 1].availableBalance])

\* lines 127-220 with the profile's ratio taking precedence over explicit
\* amounts at line 144 (a faulty variant, which C12 rejects)
BeforeAwaitRatioFirst(totalAmountIn, cardIndicesIn, customSplitIn, profileName) ==
    LET totalAmount == toFixed2(totalAmountIn)
        useProfile == profileName # NullName
        profile == IF useProfile THEN paymentProfiles[profileName] ELSE NoProfile
        cardIndices == IF useProfile THEN profile.cardIndices ELSE cardIndicesIn
        customSplitAmounts ==
            IF useProfile /\ profile.splitRatio.given
            THEN Array(RatioSplit(totalAmount, profile.splitRatio.amounts))
            ELSE customSplitIn
        result(outcome, message, logged) ==
            [ outcome |-> outcome, message |-> message,
              totalAmount |-> totalAmount, cardIndices |-> cardIndices,
              customSplitAmounts |-> customSplitAmounts,
              loggedIndices |-> logged ]
    IN  IF useProfile /\ ~profile.saved THEN
            [ outcome |-> "notfound",
              message |-> Msg("Payment profile not found", 0, ""),
              totalAmount |-> totalAmount, cardIndices |-> cardIndicesIn,
              customSplitAmounts |-> customSplitIn, loggedIndices |-> <<>> ]
        ELSE IF totalAmount <= 0 THEN
            result("failed", Msg("Total amount must be greater than zero", 0, ""), <<>>)
        ELSE IF Len(cardIndices) = 0 \/ Len(cardIndices) > MaxCardsPerPayment THEN
            result("failed", Msg("Please provide between 1 and 3 cards", 0, ""),
                   cardIndices)
        ELSE IF FirstInvalidIndex(cardIndices) # 0 THEN
            result("failed",
                   Msg("Invalid card index",
                       cardIndices[FirstInvalidIndex(cardIndices)], ""),
                   cardIndices)
        ELSE IF FirstUnusableCard(cardIndices, 1) # NoMsg THEN
            result("failed", FirstUnusableCard(cardIndices, 1), cardIndices)
        ELSE IF totalAvailableBalance(cardIndices) < totalAmount THEN
            result("failed", Msg("Insufficient funds across all provided cards", 0, ""),
                   cardIndices)
        ELSE result("await", NoMsg, cardIndices)

\* Lines 127-220: what the call does before it reaches the await.
\*   outcome "notfound": returns a failure and logs nothing (lines 135-141)
\*   outcome "failed":   logs FAILED and returns the failure
\*   outcome "await":    suspends at line 223
BeforeAwait(totalAmountIn, cardIndicesIn, customSplitIn, profileName) ==
    LET totalAmount == toFixed2(totalAmountIn)
        useProfile == profileName # NullName
        profile == IF useProfile THEN paymentProfiles[profileName] ELSE NoProfile
        cardIndices == IF useProfile THEN profile.cardIndices ELSE cardIndicesIn
        customSplitAmounts ==
            IF useProfile /\ profile.splitRatio.given /\ ~customSplitIn.given
            THEN Array(RatioSplit(totalAmount, profile.splitRatio.amounts))
            ELSE customSplitIn
        result(outcome, message, logged) ==
            [ outcome |-> outcome, message |-> message,
              totalAmount |-> totalAmount, cardIndices |-> cardIndices,
              customSplitAmounts |-> customSplitAmounts,
              loggedIndices |-> logged ]
    IN  IF useProfile /\ ~profile.saved THEN
            [ outcome |-> "notfound",
              message |-> Msg("Payment profile not found", 0, ""),
              totalAmount |-> totalAmount, cardIndices |-> cardIndicesIn,
              customSplitAmounts |-> customSplitIn, loggedIndices |-> <<>> ]
        ELSE IF totalAmount <= 0 THEN
            result("failed", Msg("Total amount must be greater than zero", 0, ""), <<>>)
        ELSE IF Len(cardIndices) = 0 \/ Len(cardIndices) > MaxCardsPerPayment THEN
            result("failed", Msg("Please provide between 1 and 3 cards", 0, ""),
                   cardIndices)
        ELSE IF FirstInvalidIndex(cardIndices) # 0 THEN
            result("failed",
                   Msg("Invalid card index",
                       cardIndices[FirstInvalidIndex(cardIndices)], ""),
                   cardIndices)
        ELSE IF FirstUnusableCard(cardIndices, 1) # NoMsg THEN
            result("failed", FirstUnusableCard(cardIndices, 1), cardIndices)
        ELSE IF totalAvailableBalance(cardIndices) < totalAmount THEN
            result("failed", Msg("Insufficient funds across all provided cards", 0, ""),
                   cardIndices)
        ELSE result("await", NoMsg, cardIndices)

ProcessPaymentCall(totalAmountIn, cardIndicesIn, customSplitIn, profileName) ==
    /\ LET transactionId == nextId + 1
           r == BeforeAwait(totalAmountIn, cardIndicesIn, customSplitIn, profileName)
       IN  /\ nextId' = transactionId
           /\ transactionHistory' =
                  IF r.outcome = "failed"
                  THEN logTransaction(transactionHistory, transactionId, "FAILED",
                                      r.message, r.totalAmount, r.loggedIndices, <<>>)
                  ELSE transactionHistory
           /\ pending' =
                  IF r.outcome = "await"
                  THEN pending \cup
                           { [ transactionId |-> transactionId,
                               totalAmount |-> r.totalAmount,
                               cardIndices |-> r.cardIndices,
                               customSplitAmounts |-> r.customSplitAmounts ] }
                  ELSE pending
           /\ returned' =
                  IF r.outcome = "await" THEN returned
                  ELSE Returned("processPayment", FALSE, r.message, transactionId)
    /\ UNCHANGED <<registeredCards, paymentProfiles, now, audit>>

----------------------------------------------------------------------------
(* processPayment, after the await of line 223 *)

\* line 244 with a tolerance of two cents (a faulty variant, which C8 rejects)
SplitSumMismatchTwoCents(sumOfSplits, totalAmount, above) ==
    Abs(sumOfSplits - totalAmount) > ToleranceCents + 1

\* Math.abs(sumOfSplits - totalAmount) > 0.01, on binary floating point.
\* A difference of two cents or more is above 0.01, no difference is not;
\* a difference of exactly one cent comes out on either side of 0.01
\* (0.3 - 0.29 > 0.01, but 700 - 699.99 < 0.01): `above` is the side the
\* floating-point subtraction falls on.
SplitSumMismatch(sumOfSplits, totalAmount, above) ==
    \/ Abs(sumOfSplits - totalAmount) > ToleranceCents
    \/ Abs(sumOfSplits - totalAmount) = ToleranceCents /\ above

\* card.availableBalance = parseFloat((card.availableBalance + amount).toFixed(2))
Credit(cards, cardIndex, amount) ==
    [cards EXCEPT ![cardIndex + 1].availableBalance = @ + amount]

\* The state of the charging loops: the cards, the charges pushed so far,
\* the amount still to collect, how the call ended and its message, every
\* charge() call made (debits) and every compensating credit (credits).
LoopState(cards, totalAmount) ==
    [ cards |-> cards, charges |-> <<>>, remainingAmount |-> totalAmount,
      status |-> "RUNNING", message |-> NoMsg, debits |-> <<>>, credits |-> <<>> ]

Debit(cardIndex, amount, success) ==
    [cardIndex |-> cardIndex, amount |-> amount, success |-> success]

\* the loop of lines 261-265 stopping one card early (a faulty
\* variant, which C2 rejects)
RECURSIVE RefundCustomSplitOneShort(_, _, _, _, _)
RefundCustomSplitOneShort(j, i, cardIndices, amounts, st) ==
    IF j >= i - 1 THEN st
    ELSE RefundCustomSplitOneShort(j + 1, i, cardIndices, amounts,
             [st EXCEPT !.cards = Credit(@, cardIndices[j], amounts[j]),
                        !.credits = Append(@, [cardIndex |-> cardIndices[j],
                                               amount |-> amounts[j]])])

\* Lines 261-265: for (j = 0; j < i; j++) credit selectedCards[j] with
\* customSplitAmounts[j].  Positions are 1-based here.
RECURSIVE RefundCustomSplit(_, _, _, _, _)
RefundCustomSplit(j, i, cardIndices, amounts, st) ==
    IF j >= i THEN st
    ELSE RefundCustomSplit(j + 1, i, cardIndices, amounts,
             [st EXCEPT !.cards = Credit(@, cardIndices[j], amounts[j]),
                        !.credits = Append(@, [cardIndex |-> cardIndices[j],
                                               amount |-> amounts[j]])])

\* Lines 255-284: charge each card with its custom amount.
RECURSIVE ChargeCustomSplit(_, _, _, _)
ChargeCustomSplit(i, cardIndices, amounts, st) ==
    IF i > Len(cardIndices) THEN [st EXCEPT !.status = "SUCCESS"]
    ELSE LET chargeAmount == amounts[i]
             chargeResult == charge(st.cards[cardIndices[i] + 1], chargeAmount)
             tried == Append(st.debits,
                             Debit(cardIndices[i], chargeAmount, chargeResult.success))
         IN  IF ~chargeResult.success THEN
                 RefundCustomSplit(1, i, cardIndices, amounts,
                     [st EXCEPT !.status = "FAILED",
                                !.message = Msg("Failed to charge card", i,
                                                chargeResult.message),
                                !.debits = tried])
             ELSE ChargeCustomSplit(i + 1, cardIndices, amounts,
                     [st EXCEPT !.cards[cardIndices[i] + 1] = chargeResult.card,
                                !.charges = Append(@,
                                    Receipt(cardIndices[i], chargeAmount,
                                            chargeResult.card.availableBalance)),
                                !.debits = tried])

\* Lines 296-301: for (j = 0; j < i; j++) credit selectedCards[j] with
\* charges[j].amountCharged.  When charges has no element j, reading
\* .amountCharged of undefined throws a TypeError: the loop stops there,
\* nothing is logged and the promise is rejected.
RECURSIVE RefundSequential(_, _, _, _)
RefundSequential(j, i, cardIndices, st) ==
    IF j >= i THEN st
    ELSE IF j > Len(st.charges) THEN [st EXCEPT !.status = "THROWN"]
    ELSE LET refundAmount == st.charges[j].amountCharged
         IN  RefundSequential(j + 1, i, cardIndices,
                 [st EXCEPT !.cards = Credit(@, cardIndices[j], refundAmount),
                            !.credits = Append(@, [cardIndex |-> cardIndices[j],
                                                   amount |-> refundAmount])])

\* the loop of lines 287-327 charging each card its whole balance (a faulty
\* variant, which C10 rejects)
RECURSIVE ChargeSequentialWholeBalance(_, _, _)
ChargeSequentialWholeBalance(i, cardIndices, st) ==
    IF i > Len(cardIndices) THEN [st EXCEPT !.status = "SUCCESS"]
    ELSE LET card == st.cards[cardIndices[i] + 1]
             chargeAmount == card.availableBalance
             chargeResult == charge(card, chargeAmount)
             tried == Append(st.debits,
                             Debit(cardIndices[i], chargeAmount, chargeResult.success))
             remainingAmount == st.remainingAmount - chargeAmount
             charged ==
                 [st EXCEPT !.cards[cardIndices[i] + 1] = chargeResult.card,
                            !.charges = Append(@,
                                Receipt(cardIndices[i], chargeAmount,
                                        chargeResult.card.availableBalance)),
                            !.remainingAmount = remainingAmount,
                            !.debits = tried]
         IN  IF chargeAmount > 0 THEN
                 IF ~chargeResult.success THEN
                     RefundSequential(1, i, cardIndices,
                         [st EXCEPT !.status = "FAILED",
                                    !.message = Msg("Failed to charge card", i,
                                                    chargeResult.message),
                                    !.debits = tried])
                 ELSE IF remainingAmount <= 0 THEN [charged EXCEPT !.status = "SUCCESS"]
                 ELSE ChargeSequentialWholeBalance(i + 1, cardIndices, charged)
             ELSE ChargeSequentialWholeBalance(i + 1, cardIndices, st)

\* Lines 287-327: charge cards in sequence until the total amount is covered.
RECURSIVE ChargeSequential(_, _, _)
ChargeSequential(i, cardIndices, st) ==
    IF i > Len(cardIndices) THEN [st EXCEPT !.status = "SUCCESS"]
    ELSE LET card == st.cards[cardIndices[i] + 1]
             chargeAmount == Min(st.remainingAmount, card.availableBalance)
             chargeResult == charge(card, chargeAmount)
             tried == Append(st.debits,
                             Debit(cardIndices[i], chargeAmount, chargeResult.success))
             remainingAmount == st.remainingAmount - chargeAmount
             charged ==
                 [st EXCEPT !.cards[cardIndices[i] + 1] = chargeResult.card,
                            !.charges = Append(@,
                                Receipt(cardIndices[i], chargeAmount,
                                        chargeResult.card.availableBalance)),
                            !.remainingAmount = remainingAmount,
                            !.debits = tried]
         IN  IF chargeAmount > 0 THEN
                 IF ~chargeResult.success THEN
                     RefundSequential(1, i, cardIndices,
                         [st EXCEPT !.status = "FAILED",
                                    !.message = Msg("Failed to charge card", i,
                                                    chargeResult.message),
                                    !.debits = tried])
                 ELSE IF remainingAmount <= 0 THEN [charged EXCEPT !.status = "SUCCESS"]
                 ELSE ChargeSequential(i + 1, cardIndices, charged)
             ELSE ChargeSequential(i + 1, cardIndices, st)

\* Lines 225-339 for the suspended call p: the final loop state, with
\* `logged` the charges argument of its logTransaction call.
AfterAwait(p, above) ==
    LET start == LoopState(registeredCards, p.totalAmount)
        given == p.customSplitAmounts.amounts
        customSplitAmounts == [i \in 1..Len(given) |-> toFixed2(given[i])]
        asNumbers == [i \in 1..Len(given) |-> Number(customSplitAmounts[i])]
        sumOfSplits == SumSeq(customSplitAmounts)
        withLog(st, logged) ==
            [ cards |-> st.cards, charges |-> st.charges, status |-> st.status,
              message |-> st.message, debits |-> st.debits,
              credits |-> st.credits, logged |-> logged ]
    IN  IF p.customSplitAmounts.given THEN
            IF Len(given) # Len(p.cardIndices) THEN
                withLog([start EXCEPT !.status = "FAILED",
                           !.message = Msg("Number of split amounts must match number of cards",
                                           0, "")],
                        <<>>)
            ELSE IF SplitSumMismatch(sumOfSplits, p.totalAmount, above) THEN
                withLog([start EXCEPT !.status = "FAILED",
                           !.message = Msg("Sum of split amounts does not equal total amount",
                                           0, "")],
                        asNumbers)
            ELSE LET st == ChargeCustomSplit(1, p.cardIndices, customSplitAmounts, start)
                 IN  withLog(st, IF st.status = "SUCCESS" THEN st.charges ELSE asNumbers)
        ELSE LET st == ChargeSequential(1, p.cardIndices, start)
             IN  withLog(st, IF st.status = "SUCCESS" THEN st.charges ELSE <<>>)

\* The cards whose balance differs between two states of the registry.
Changed(cards) ==
    { k \in 0..(Len(registeredCards) - 1) :
        cards[k + 1].availableBalance # registeredCards[k + 1].availableBalance }

Touch(changed) == [t \in DOMAIN audit |-> [audit[t] EXCEPT !.touched = @ \cup changed]]

ProcessPaymentResume(p, above) ==
    LET r == AfterAwait(p, above)
        touched == Touch(Changed(r.cards))
    IN  /\ pending' = pending \ {p}
        /\ registeredCards' = r.cards
        /\ transactionHistory' =
               IF r.status = "THROWN" THEN transactionHistory
               ELSE logTransaction(transactionHistory, p.transactionId, r.status,
                                   IF r.status = "SUCCESS"
                                   THEN Msg("Payment processed successfully", 0, "")
                                   ELSE r.message,
                                   p.totalAmount, p.cardIndices, r.logged)
        /\ audit' =
               IF r.status = "SUCCESS"
               THEN [t \in DOMAIN audit \cup {p.transactionId} |->
                        IF t = p.transactionId
                        THEN [before |-> Balances, touched |-> {}]
                        ELSE touched[t]]
               ELSE touched
        /\ returned' =
               IF r.status = "THROWN"
               THEN Returned("processPayment", FALSE, Msg("TypeError", 0, ""), 0)
               ELSE Returned("processPayment", r.status = "SUCCESS",
                             IF r.status = "SUCCESS"
                             THEN Msg("Payment processed successfully", 0, "")
                             ELSE r.message,
                             p.transactionId)
        /\ UNCHANGED <<paymentProfiles, nextId, now>>

----------------------------------------------------------------------------
(* refundTransaction *)

\* the loop of lines 381-386 leaving out the last charge (a faulty
\* variant, which C4 rejects)
RECURSIVE RefundChargesOneShort(_, _, _)
RefundChargesOneShort(k, charges, st) ==
    IF k >= Len(charges) THEN st
    ELSE LET c == charges[k]
         IN  IF c.cardIndex >= 0 /\ c.cardIndex < Len(st.cards)
             THEN RefundChargesOneShort(k + 1, charges,
                      [ cards |-> Credit(st.cards, c.cardIndex, c.amountCharged),
                        credits |-> Append(st.credits,
                                           [cardIndex |-> c.cardIndex,
                                            amount |-> c.amountCharged]) ])
             ELSE RefundChargesOneShort(k + 1, charges, st)

\* Lines 381-386: credit each charge back to the card at its cardIndex.
RECURSIVE RefundCharges(_, _, _)
RefundCharges(k, charges, st) ==
    IF k > Len(charges) THEN st
    ELSE LET c == charges[k]
         IN  IF c.cardIndex >= 0 /\ c.cardIndex < Len(st.cards)
             THEN RefundCharges(k + 1, charges,
                      [ cards |-> Credit(st.cards, c.cardIndex, c.amountCharged),
                        credits |-> Append(st.credits,
                                           [cardIndex |-> c.cardIndex,
                                            amount |-> c.amountCharged]) ])
             ELSE RefundCharges(k + 1, charges, st)

\* line 376 refusing only FAILED transactions (a faulty variant, which C5
\* rejects)
RefundAllowedUnlessFailed(transaction) == transaction.status # "FAILED"

\* line 376 letting a REFUND record be refunded too (a faulty variant, which
\* C14 rejects)
RefundAllowedAlsoRefund(transaction) == transaction.status \in { "SUCCESS", "REFUND" }

\* line 376 letting a refunded transaction be refunded again (a faulty
\* variant, which C19 rejects)
RefundAllowedTwice(transaction) == transaction.status \in { "SUCCESS", "REFUNDED" }

\* Line 376: only a transaction whose status is SUCCESS is refunded.
RefundAllowed(transaction) == transaction.status = "SUCCESS"

refundTransaction(transactionId) ==
    LET k == getTransaction(transactionId)
        transaction == transactionHistory[k]
        refused(text) ==
            /\ returned' = Returned("refundTransaction", FALSE, Msg(text, 0, ""), 0)
            /\ UNCHANGED <<registeredCards, transactionHistory, nextId, audit>>
    IN  /\ IF k = 0 THEN
               refused("Transaction not found")
           ELSE IF ~RefundAllowed(transaction) THEN
               refused("Cannot refund failed transaction")
           ELSE
               LET r == RefundCharges(1, transaction.charges,
                                      [cards |-> registeredCards, credits |-> <<>>])
                   refundTransactionId == nextId + 1
                   logged == logTransaction(transactionHistory, refundTransactionId,
                                 "REFUND",
                                 Msg("Refund for transaction", transactionId, ""),
                                 transaction.amount, transaction.cardIndices,
                                 transaction.charges)
               IN  /\ nextId' = refundTransactionId
                   /\ registeredCards' = r.cards
                   /\ transactionHistory' =
                          [logged EXCEPT ![k].status = "REFUNDED",
                                         ![k].refundTransactionId = refundTransactionId]
                   /\ audit' = [t \in DOMAIN audit |->
                                   IF t = transactionId THEN audit[t]
                                   ELSE [audit[t] EXCEPT
                                            !.touched = @ \cup Changed(r.cards)]]
                   /\ returned' = Returned("refundTransaction", TRUE,
                                           Msg("Transaction refunded successfully", 0, ""),
                                           refundTransactionId)
        /\ UNCHANGED <<paymentProfiles, pending, now>>

----------------------------------------------------------------------------
(* The clock *)

Tick ==
    /\ now < MaxNow
    /\ now' = now + 1
    /\ UNCHANGED <<registeredCards, transactionHistory, paymentProfiles, pending,
                   nextId, returned, audit>>

----------------------------------------------------------------------------
(* Inputs *)

MaxSel == 2        \* length of the card selections and amount lists drawn

\* opening balance: MaxBal cents, written with a third decimal
BalanceInputs == { Cents(MaxBal) + 1 }

\* the cards registered: with a valid number, of every expiry date; with an
\* invalid number, never expiring
CardInputs ==
    { <<n, e>> \in CardNumbers \X ExpiryDates :
        validateCard([cardNumber |-> n]) \/ e = MaxNow }

\* totals: one that rounds to zero, one that rounds to MaxBal, MaxBal + 1,
\* and one above the balance of MaxSel cards
TotalInputs ==
    { 1, Cents(MaxBal) + 1, Cents(MaxBal + 1), Cents(MaxSel * MaxBal + 1) }

\* card indices: those of the registered cards, and one that is never valid
IndexInputs == 0..MaxCards

\* selections of up to MaxSel cards that start with card 0, the empty one,
\* and one of more cards than allowed
SelectionInputs ==
    { <<>>, [i \in 1..(MaxCardsPerPayment + 1) |-> 0] }
        \cup { c \in UNION { [1..n -> IndexInputs] : n \in 1..MaxSel } : c[1] = 0 }

\* split amounts: zero, a fraction of a cent that rounds up to one cent,
\* MaxBal cents
AmountInputs == { 0, Sub - 1, Cents(MaxBal) }

SplitInputs ==
    { Null } \cup { Array(a) : a \in UNION { [1..n -> AmountInputs] : n \in 1..MaxSel } }

\* ratios, in 1/Sub: none, and one that sums to 1
RatioInputs == { Null, Array(<<1, Sub - 1>>) }

\* the selections profiles are saved with: two cards, and one with an
\* index that is never valid
ProfileSelectionInputs == { <<0, 1>>, <<0, MaxCards>> }

ProfileNameInputs == { NullName } \cup ProfileNames

\* The first processPayment call of a behaviour draws from the sets above;
\* the calls after it draw from these.
LaterTotalInputs == { Cents(MaxBal) }

LaterSelectionInputs == { <<0>>, <<0, 1>> }

LaterSplitInputs == { Null, Array(<<Cents(MaxBal)>>) }

----------------------------------------------------------------------------
(* The state machine *)

Init ==
    /\ registeredCards = <<>>
    /\ transactionHistory = <<>>
    /\ paymentProfiles = [n \in ProfileNames |-> NoProfile]
    /\ pending = {}
    /\ nextId = 0
    /\ now = 0
    /\ returned = Returned("none", FALSE, NoMsg, 0)
    /\ audit = <<>>

Register ==
    \E c \in CardInputs, b \in BalanceInputs : RegisterCard(c[1], c[2], b)

SaveProfile ==
    \E n \in ProfileNames, c \in ProfileSelectionInputs, r \in RatioInputs :
        savePaymentProfile(n, c, r)

\* the refunds carried out so far
NumRefunds ==
    Cardinality({ k \in 1..Len(transactionHistory) :
                    transactionHistory[k].status = "REFUND" })

Pay ==
    /\ nextId = 0
    /\ \E t \in TotalInputs, c \in SelectionInputs, s \in SplitInputs,
          n \in ProfileNameInputs :
           ProcessPaymentCall(t, c, s, n)

PayAgain ==
    /\ nextId > 0
    /\ nextId - NumRefunds < MaxPayments
    /\ Cardinality(pending) < MaxPending
    /\ \E t \in LaterTotalInputs, c \in LaterSelectionInputs,
          s \in LaterSplitInputs :
           ProcessPaymentCall(t, c, s, NullName)

Resume == \E p \in pending, above \in BOOLEAN : ProcessPaymentResume(p, above)

\* A refund is drawn while its record's id stays within MaxTxn; a refused
\* refund takes no id and is always drawn.
Refund ==
    \E t \in 1..MaxTxn :
        /\ refundTransaction(t)
        /\ nextId' <= MaxTxn

Next == Register \/ SaveProfile \/ Pay \/ PayAgain \/ Resume \/ Refund \/ Tick

Spec == Init /\ [][Next]_vars

----------------------------------------------------------------------------
(* Payments through a profile with a ratio *)

MaxRatioTotal == 5   \* largest total of a payment through a profile, in cents

\* ratio vectors for 1 to 3 cards, in 1/Sub, that sum to 1
RatioVectors ==
    { r \in UNION { [1..n -> 0..Sub] : n \in 1..MaxCardsPerPayment } :
        SumSeq(r) = Sub }

RatioTotals == { Cents(c) : c \in 1..MaxRatioTotal }

\* Three usable cards are registered, each able to pay any total alone, and
\* profile "p" is saved for the first cards with a ratio vector.
InitRatio ==
    /\ registeredCards =
           [i \in 1..MaxCardsPerPayment |->
               Card(<<5, 10, 9>>, MaxNow, Cents(MaxRatioTotal))]
    /\ \E r \in RatioVectors :
          paymentProfiles =
              [n \in ProfileNames |->
                  [ saved |-> TRUE,
                    cardIndices |-> [i \in 1..Len(r) |-> i - 1],
                    splitRatio |-> Array(r) ]]
    /\ transactionHistory = <<>>
    /\ pending = {}
    /\ nextId = 0
    /\ now = 0
    /\ returned = Returned("none", FALSE, NoMsg, 0)
    /\ audit = <<>>

\* processPayment(total, [], null, "p")
RatioPay ==
    /\ nextId = 0
    /\ \E t \in RatioTotals : ProcessPaymentCall(t, <<>>, Null, "p")

NextRatio == RatioPay \/ Resume

SpecRatio == InitRatio /\ [][NextRatio]_vars

----------------------------------------------------------------------------
(* Payments with three cards *)

\* The registry holds MaxCardsPerPayment cards from the start, each with no
\* balance or with MaxBal cents and with any expiry date; every call selects
\* all of them, in order, without amounts or with one amount for each.

ThreeCards == <<0, 1, 2>>

ThreeBalanceInputs == { 0, Cents(MaxBal) }

ThreeTotalInputs == { Cents(MaxBal + 1) }

ThreeSplitInputs ==
    { Null } \cup { Array(a) : a \in [1..Len(ThreeCards) -> { 0, Cents(1) }] }

InitThree ==
    /\ \E b \in [1..Len(ThreeCards) -> ThreeBalanceInputs],
          e \in [1..Len(ThreeCards) -> ExpiryDates] :
           registeredCards =
               [k \in 1..Len(ThreeCards) |-> Card(<<5, 10, 9>>, e[k], b[k])]
    /\ transactionHistory = <<>>
    /\ paymentProfiles = [n \in ProfileNames |-> NoProfile]
    /\ pending = {}
    /\ nextId = 0
    /\ now = 0
    /\ returned = Returned("none", FALSE, NoMsg, 0)
    /\ audit = <<>>

PayThree ==
    /\ nextId - NumRefunds < MaxPayments
    /\ Cardinality(pending) < MaxPending
    /\ \E t \in ThreeTotalInputs, s \in ThreeSplitInputs :
           ProcessPaymentCall(t, ThreeCards, s, NullName)

NextThree == PayThree \/ Resume \/ Refund \/ Tick

SpecThree == InitThree /\ [][NextThree]_vars

----------------------------------------------------------------------------
(* Properties *)

Entries == 1..Len(transactionHistory)

SumCharged(charges) == SumSeq([i \in 1..Len(charges) |-> charges[i].amountCharged])

\* the step appends a record with this status to transactionHistory
Logs(status) ==
    /\ Len(transactionHistory') = Len(transactionHistory) + 1
    /\ transactionHistory'[Len(transactionHistory')].status = status

\* C1: in every transaction logged SUCCESS, the amounts charged sum to the
\* total requested, exactly.
C1_ChargesSumToTotal ==
    \A k \in Entries :
        transactionHistory[k].status = "SUCCESS" =>
            SumCharged(transactionHistory[k].charges) = transactionHistory[k].amount

\* C2: a step that logs a transaction as FAILED leaves every card with the
\* balance it had before the step, that is, before the call's first debit.
C2_FailedRestoresBalances ==
    [][Logs("FAILED") => Balances' = Balances]_vars

\* a debit failed at the second position of the plan, after the first card
\* had been debited, and the call was logged FAILED
C2_Witness ==
    \E k \in Entries :
        /\ transactionHistory[k].status = "FAILED"
        /\ transactionHistory[k].message.text = "Failed to charge card"
        /\ transactionHistory[k].message.arg >= 2

\* C3: no card's balance is ever negative.
C3_BalancesNonNegative ==
    \A i \in 1..Len(registeredCards) : registeredCards[i].availableBalance >= 0

\* two calls were suspended on the same card at once, and one of them has
\* since debited the card to zero while the other is still suspended
C3_Witness ==
    \E p \in pending, k \in Entries :
        /\ transactionHistory[k].status = "SUCCESS"
        /\ transactionHistory[k].transactionId > p.transactionId
        /\ \E i \in 1..Len(p.cardIndices) :
              registeredCards[p.cardIndices[i] + 1].availableBalance = 0

\* the amount the charges of a transaction took from the card with this index
ChargedTo(charges, cardIndex) ==
    SumSeq([i \in 1..Len(charges) |->
               IF charges[i].cardIndex = cardIndex THEN charges[i].amountCharged ELSE 0])

\* the cards the charges of a transaction name
CardsCharged(charges) == { charges[i].cardIndex : i \in 1..Len(charges) }

\* the records of refunds of the transaction with this id
RefundsOf(transactionId) ==
    { k \in Entries :
        /\ transactionHistory[k].status = "REFUND"
        /\ transactionHistory[k].message.arg = transactionId }

\* C4: a refund of a transaction whose status is SUCCESS gives every card
\* back what the transaction's charges took from it, which is the balance
\* the card had before the transaction's debits when no other operation
\* changed it since; it sets the transaction's status to REFUNDED, and it
\* returns success with the id of the refund record.
C4_RefundRestores ==
    [][\A t \in 1..MaxTxn :
          LET k == getTransaction(t)
          IN  (IF k = 0 THEN FALSE
               ELSE transactionHistory[k].status = "SUCCESS" /\ refundTransaction(t))
              =>
              LET charges == transactionHistory[k].charges
              IN  /\ \A c \in 0..(Len(registeredCards) - 1) :
                        Balances'[c + 1] = Balances[c + 1] + ChargedTo(charges, c)
                  /\ \A c \in CardsCharged(charges) \ audit[t].touched :
                        Balances'[c + 1] = audit[t].before[c + 1]
                  /\ transactionHistory'[k].status = "REFUNDED"
                  /\ returned'.op = "refundTransaction"
                  /\ returned'.success
                  /\ returned'.id = nextId'
                  /\ transactionHistory'[Len(transactionHistory')].transactionId
                         = returned'.id
    ]_vars

\* a transaction that charged two cards has been refunded, and no other
\* operation had changed either card
C4_Witness ==
    \E k \in Entries :
        /\ transactionHistory[k].status = "REFUNDED"
        /\ Cardinality(CardsCharged(transactionHistory[k].charges)) = 2
        /\ audit[transactionHistory[k].transactionId].touched = {}
        /\ returned.op = "refundTransaction" /\ returned.success

\* C5: a refund of an unknown id, or of a record whose status is not
\* SUCCESS, returns failure and changes no card and no record; so no
\* transaction is ever refunded twice.
C5_RefusedRefundChangesNothing ==
    [][/\ \A t \in 1..MaxTxn :
             LET k == getTransaction(t)
             IN  ((IF k = 0 THEN TRUE ELSE transactionHistory[k].status # "SUCCESS")
                      /\ refundTransaction(t))
                 => /\ UNCHANGED <<registeredCards, transactionHistory>>
                    /\ ~returned'.success
       /\ \A t \in 1..MaxTxn : Cardinality(RefundsOf(t)') <= 1
    ]_vars

\* a refund has just been refused, where the history holds a FAILED record,
\* a REFUNDED record and the REFUND record of its refund
C5_Witness ==
    /\ returned.op = "refundTransaction" /\ ~returned.success
    /\ \E k \in Entries : transactionHistory[k].status = "FAILED"
    /\ \E k \in Entries : transactionHistory[k].status = "REFUNDED"
    /\ \E k \in Entries : transactionHistory[k].status = "REFUND"


----------------------------------------------------------------------------
(* Properties of processPayment, stated over the inputs of a call *)

\* the inputs a processPayment call is drawn with in the current state
CallTotals == IF nextId = 0 THEN TotalInputs ELSE LaterTotalInputs

CallSelections == IF nextId = 0 THEN SelectionInputs ELSE LaterSelectionInputs

CallSplits == IF nextId = 0 THEN SplitInputs ELSE LaterSplitInputs

CallNames == IF nextId = 0 THEN ProfileNameInputs ELSE { NullName }

\* the cards a call selects: those of the named profile, or those it passes
SelectedIndices(c, n) == IF n = NullName THEN c ELSE paymentProfiles[n].cardIndices

ProfileKnown(n) == n = NullName \/ paymentProfiles[n].saved

IndicesRegistered(sel) ==
    \A i \in 1..Len(sel) : sel[i] >= 0 /\ sel[i] < Len(registeredCards)

ValidSelection(sel) ==
    Len(sel) >= 1 /\ Len(sel) <= MaxCardsPerPayment /\ IndicesRegistered(sel)

Usable(card) == ~isExpired(card) /\ validateCard(card)

AllUsable(sel) == \A i \in 1..Len(sel) : Usable(registeredCards[sel[i] + 1])

AggregateBalance(sel) ==
    SumSeq([i \in 1..Len(sel) |-> Balances[sel[i] + 1]])

\* The total and the cards of the call a step makes, as the step records
\* them: in the call it suspends, or in the record it appends.
Called ==
    IF pending' # pending
    THEN LET p == CHOOSE q \in pending' \ pending : TRUE
         IN  [total |-> p.totalAmount, sel |-> p.cardIndices]
    ELSE IF Len(transactionHistory') = Len(transactionHistory) + 1
    THEN LET e == transactionHistory'[Len(transactionHistory')]
         IN  [total |-> e.amount, sel |-> e.cardIndices]
    ELSE [total |-> 0, sel |-> <<>>]

InsufficientAggregate ==
    Msg("Insufficient funds across all provided cards", 0, "")

\* the call ends at once, refused with this message: a FAILED record, no
\* suspension, no balance changed
RefusedWith(message) ==
    /\ returned' = Returned("processPayment", FALSE, message, nextId')
    /\ Logs("FAILED")
    /\ transactionHistory'[Len(transactionHistory')].message = message
    /\ pending' = pending
    /\ Balances' = Balances

\* C6: a call that names a known profile or none, selects 1 to 3 registered
\* cards that are all usable, and asks for a total above the sum of their
\* balances is refused with the insufficient-aggregate-funds error before
\* any debit, with every balance unchanged, whichever split it passes and
\* whichever ratio its profile has.
C6_InsufficientAggregateFunds ==
    [][nextId' = nextId + 1 =>
          \A n \in CallNames, c \in CallSelections :
              (/\ ProfileKnown(n)
               /\ SelectedIndices(c, n) = Called.sel
               /\ ValidSelection(SelectedIndices(c, n))
               /\ AllUsable(SelectedIndices(c, n)))
              => \A t \in CallTotals :
                    (toFixed2(t) = Called.total /\ toFixed2(t) > AggregateBalance(SelectedIndices(c, n)))
                    => \A s \in CallSplits :
                          ProcessPaymentCall(t, c, s, n) => RefusedWith(InsufficientAggregate)
    ]_vars

\* a call for two distinct cards has just been refused for insufficient
\* aggregate funds
C6_Witness ==
    /\ returned.op = "processPayment"
    /\ returned.message = InsufficientAggregate
    /\ \E k \in Entries :
          /\ transactionHistory[k].transactionId = returned.id
          /\ Len(transactionHistory[k].cardIndices) = 2
          /\ Cardinality(CardsCharged(
                 [i \in 1..2 |-> [cardIndex |-> transactionHistory[k].cardIndices[i]]])) = 2
          /\ transactionHistory[k].amount
                 > AggregateBalance(transactionHistory[k].cardIndices)

\* C6 as the claim states it: every call for 1 to 3 registered cards whose
\* total is above the sum of their balances is refused with the
\* insufficient-aggregate-funds error, the cards usable or not.
C6_AsStated ==
    [][nextId' = nextId + 1 =>
          \A n \in CallNames, c \in CallSelections :
              (/\ ProfileKnown(n)
               /\ SelectedIndices(c, n) = Called.sel
               /\ ValidSelection(SelectedIndices(c, n)))
              => \A t \in CallTotals :
                    (toFixed2(t) = Called.total /\ toFixed2(t) > AggregateBalance(SelectedIndices(c, n)))
                    => \A s \in CallSplits :
                          ProcessPaymentCall(t, c, s, n) => RefusedWith(InsufficientAggregate)
    ]_vars

\* the position of the first unusable card of a selection
FirstUnusable(sel) ==
    CHOOSE i \in 1..Len(sel) :
        /\ ~Usable(registeredCards[sel[i] + 1])
        /\ \A j \in 1..(i - 1) : Usable(registeredCards[sel[j] + 1])

\* the message for the card at position i: expiry is reported before an
\* invalid number
UnusableMessage(sel, i) ==
    IF isExpired(registeredCards[sel[i] + 1])
    THEN Msg("Card is expired", i, "")
    ELSE Msg("Card has an invalid number", i, "")

\* C7: a call that reaches pre-validation (known profile or none, positive
\* total, 1 to 3 registered cards) with an unusable card among those it
\* selects is refused with the error that names the first unusable card in
\* selection order, and no balance changes: nothing is debited, the call is
\* not even suspended.
C7_FirstUnusableCardAborts ==
    [][nextId' = nextId + 1 =>
          \A n \in CallNames, c \in CallSelections :
              (/\ ProfileKnown(n)
               /\ SelectedIndices(c, n) = Called.sel
               /\ ValidSelection(SelectedIndices(c, n))
               /\ ~AllUsable(SelectedIndices(c, n)))
              => \A t \in CallTotals :
                    (toFixed2(t) = Called.total /\ toFixed2(t) > 0)
                    => \A s \in CallSplits :
                          ProcessPaymentCall(t, c, s, n) => RefusedWith(UnusableMessage(SelectedIndices(c, n),
                                     FirstUnusable(SelectedIndices(c, n))))
    ]_vars

\* a call has just been refused naming its first card, where both cards it
\* selected are unusable, one expired and one with an invalid number
C7_Witness ==
    /\ returned.op = "processPayment"
    /\ returned.message.text \in { "Card is expired", "Card has an invalid number" }
    /\ returned.message.arg = 1
    /\ \E k \in Entries :
          /\ transactionHistory[k].transactionId = returned.id
          /\ Len(transactionHistory[k].cardIndices) = 2
          /\ LET first == registeredCards[transactionHistory[k].cardIndices[1] + 1]
                 second == registeredCards[transactionHistory[k].cardIndices[2] + 1]
             IN  /\ ~Usable(first) /\ ~Usable(second)
                 /\ isExpired(first) # isExpired(second)

----------------------------------------------------------------------------
(* Properties of processPayment, stated over a suspended call *)

Rounded(amounts) == [i \in 1..Len(amounts) |-> toFixed2(amounts[i])]

SplitSumMessage == Msg("Sum of split amounts does not equal total amount", 0, "")

\* the suspended call p ends refused with this message: a FAILED record and
\* no balance changed
EndsRefusedWith(p, message) ==
    /\ returned' = Returned("processPayment", FALSE, message, p.transactionId)
    /\ Logs("FAILED")
    /\ transactionHistory'[Len(transactionHistory')].message = message
    /\ Balances' = Balances

\* C8: a call with fixed amounts, one per selected card, that has passed
\* input validation, card pre-validation and the aggregate-funds check, and
\* whose amounts, each rounded to the cent, sum to more than one cent above
\* or below its total, fails with the split-sum-mismatch error and makes no
\* debit.
C8_SplitSumMismatchFails ==
    [][\A p \in pending, above \in BOOLEAN :
          (/\ p.customSplitAmounts.given
           /\ Len(p.customSplitAmounts.amounts) = Len(p.cardIndices)
           /\ Abs(SumSeq(Rounded(p.customSplitAmounts.amounts)) - p.totalAmount) > 1
           /\ ProcessPaymentResume(p, above))
          => /\ EndsRefusedWith(p, SplitSumMessage)
             /\ AfterAwait(p, above).debits = <<>>
    ]_vars

\* a call has just failed with the split-sum-mismatch error, and the amounts
\* its record holds sum to two cents or more away from its total
C8_Witness ==
    /\ returned.op = "processPayment"
    /\ returned.message = SplitSumMessage
    /\ \E k \in Entries :
          LET e == transactionHistory[k]
          IN  /\ e.transactionId = returned.id
              /\ e.status = "FAILED"
              /\ Len(e.charges) = Len(e.cardIndices)
              /\ Abs(SumSeq([i \in 1..Len(e.charges) |-> e.charges[i].number])
                       - e.amount) > 1

\* C8 as the claim states it: every call with fixed amounts, one per
\* selected card, whose sum differs from the total by more than one cent
\* fails with the split-sum-mismatch error, also when the balances of the
\* cards sum to less than the total: it is not refused for another reason
\* before it is suspended, and once resumed it ends with that error and no
\* balance changed.
C8_AsStated ==
    [][/\ nextId' = nextId + 1 =>
             \A n \in CallNames, c \in CallSelections :
                 (/\ ProfileKnown(n)
                  /\ SelectedIndices(c, n) = Called.sel
                  /\ ValidSelection(SelectedIndices(c, n))
                  /\ AllUsable(SelectedIndices(c, n)))
                 => \A t \in CallTotals :
                       (toFixed2(t) = Called.total /\ toFixed2(t) > 0)
                       => \A s \in CallSplits :
                             (/\ s.given
                              /\ Len(s.amounts) = Len(SelectedIndices(c, n))
                              /\ Abs(SumSeq(s.amounts) - Cents(toFixed2(t))) > Cents(1)
                              /\ ProcessPaymentCall(t, c, s, n))
                             => pending' # pending
       /\ \A p \in pending, above \in BOOLEAN :
             (/\ p.customSplitAmounts.given
              /\ Abs(SumSeq(p.customSplitAmounts.amounts) - Cents(p.totalAmount))
                     > Cents(1)
              /\ ProcessPaymentResume(p, above))
             => EndsRefusedWith(p, SplitSumMessage)
    ]_vars

\* the selection names no card twice
Distinct(sel) == \A i, j \in 1..Len(sel) : sel[i] = sel[j] => i = j

\* C9: a suspended call with fixed amounts, one per selected card, the cards
\* distinct and usable, every amount a whole number of cents that is zero
\* or more and no more than its card's balance, the amounts summing to the
\* total, succeeds; its charges are the amounts, one per card in selection
\* order, and each card's balance falls by its amount.
C9_FixedAmountsSucceed ==
    [][\A p \in pending, above \in BOOLEAN :
          LET amounts == p.customSplitAmounts.amounts
              sel == p.cardIndices
          IN  (/\ p.customSplitAmounts.given
               /\ Len(amounts) = Len(sel)
               /\ Distinct(sel)
               /\ AllUsable(sel)
               /\ \A i \in 1..Len(sel) :
                     /\ amounts[i] >= 0
                     /\ amounts[i] % Sub = 0
                     /\ amounts[i] <= Cents(Balances[sel[i] + 1])
               /\ SumSeq(amounts) = Cents(p.totalAmount)
               /\ ProcessPaymentResume(p, above))
              => /\ returned'.success
                 /\ Logs("SUCCESS")
                 /\ LET charges == transactionHistory'[Len(transactionHistory')].charges
                    IN  /\ Len(charges) = Len(sel)
                        /\ \A i \in 1..Len(sel) :
                              /\ charges[i].cardIndex = sel[i]
                              /\ Cents(charges[i].amountCharged) = amounts[i]
                              /\ Balances'[sel[i] + 1]
                                     = Balances[sel[i] + 1] - charges[i].amountCharged
    ]_vars

\* The debits of Sequential mode, written from its description: the cards in
\* the order given, each asked for the smaller of what remains and its
\* balance; a card asked for nothing is passed over; an unusable card fails
\* and ends the plan; the plan ends when nothing remains.
RECURSIVE SequentialPlan(_, _, _, _)
SequentialPlan(sel, i, remaining, balances) ==
    IF i > Len(sel) \/ remaining <= 0 THEN <<>>
    ELSE LET ask == Min(remaining, balances[sel[i] + 1])
         IN  IF ask = 0 THEN SequentialPlan(sel, i + 1, remaining, balances)
             ELSE IF ~Usable(registeredCards[sel[i] + 1])
             THEN << Debit(sel[i], ask, FALSE) >>
             ELSE << Debit(sel[i], ask, TRUE) >>
                      \o SequentialPlan(sel, i + 1, remaining - ask,
                             [balances EXCEPT ![sel[i] + 1] = @ - ask])

\* what the debits of a plan take from the card with this index
Taken(plan, cardIndex) ==
    SumSeq([i \in 1..Len(plan) |->
               IF plan[i].cardIndex = cardIndex THEN plan[i].amount ELSE 0])

\* C10: a suspended call without fixed amounts makes exactly the debits of
\* the sequential plan, in its order: each card is asked for the smaller of
\* the remaining amount and its balance, and no card is asked after the
\* remaining amount has reached zero.  When every debit succeeds, the
\* charges recorded are those debits and each card's balance falls by what
\* the plan takes from it.
C10_SequentialFill ==
    [][\A p \in pending, above \in BOOLEAN :
          (~p.customSplitAmounts.given /\ ProcessPaymentResume(p, above))
          => LET plan == SequentialPlan(p.cardIndices, 1, p.totalAmount, Balances)
             IN  /\ AfterAwait(p, above).debits = plan
                 /\ (\A i \in 1..Len(plan) : plan[i].success)
                    => /\ Logs("SUCCESS")
                       /\ LET charges ==
                                  transactionHistory'[Len(transactionHistory')].charges
                          IN  /\ Len(charges) = Len(plan)
                              /\ \A i \in 1..Len(plan) :
                                    /\ charges[i].cardIndex = plan[i].cardIndex
                                    /\ charges[i].amountCharged = plan[i].amount
                       /\ \A c \in 0..(Len(registeredCards) - 1) :
                             Balances'[c + 1] = Balances[c + 1] - Taken(plan, c)
    ]_vars

\* A call after the first, for cards 0 and 1, has succeeded with two
\* charges and left money on card 1.  The calls after the first are drawn
\* with at most one fixed amount, so a call for two cards that succeeded was
\* in Sequential mode.
C10_Witness ==
    \E k \in Entries :
        LET e == transactionHistory[k]
        IN  /\ e.transactionId > 1
            /\ e.status = "SUCCESS"
            /\ e.cardIndices = <<0, 1>>
            /\ Len(e.charges) = 2
            /\ e.charges[2].remainingBalance > 0
            /\ e.charges[2].amountCharged < e.amount


----------------------------------------------------------------------------
(* Properties of the ratio split, under SpecRatio *)

\* a whole number of cents that is nearest to x, a number of 1/Sub cent
NearestCents(a, x) == a % Sub = 0 /\ 2 * Abs(a - x) <= Sub

\* C11: the amounts of a call through a profile with a ratio and no fixed
\* amounts are one per ratio; every amount but the first is total * ratio
\* rounded to the cent; the first is its own rounded share plus the whole
\* residual, total minus the sum of the rounded shares; so the amounts sum
\* to the total exactly.
C11_RatioAmountsSumToTotal ==
    \A p \in pending :
        LET ratio == paymentProfiles["p"].splitRatio.amounts
            amounts == p.customSplitAmounts.amounts
            total == p.totalAmount
        IN  /\ p.customSplitAmounts.given
            /\ Len(amounts) = Len(ratio)
            /\ \A i \in 2..Len(ratio) : NearestCents(amounts[i], total * ratio[i])
            /\ \E share \in 0..total :
                  /\ NearestCents(Cents(share), total * ratio[1])
                  /\ LET rest == SumSeq([i \in 1..Len(ratio) |->
                                            IF i = 1 THEN 0 ELSE amounts[i]])
                         residual == Cents(total) - (Cents(share) + rest)
                     IN  amounts[1] = Cents(share) + residual
            /\ SumSeq(amounts) = Cents(total)

\* a call through the profile is suspended whose rounded shares do not sum
\* to the total: the first amount carries a residual
C11_Witness ==
    \E p \in pending :
        LET ratio == paymentProfiles["p"].splitRatio.amounts
            amounts == p.customSplitAmounts.amounts
        IN  /\ Len(ratio) = 3
            /\ ~NearestCents(amounts[1], p.totalAmount * ratio[1])


----------------------------------------------------------------------------
(* Properties of strategy selection, under Spec *)

\* The debits of fixed-amount mode, written from its description: the cards
\* in the order given, each asked for its amount; a debit fails when the
\* amount is not positive, the card is unusable, or the amount is above the
\* card's balance, and it ends the plan.
RECURSIVE FixedPlan(_, _, _, _)
FixedPlan(sel, amounts, i, balances) ==
    IF i > Len(sel) THEN <<>>
    ELSE LET ask == amounts[i]
             ok == /\ ask > 0
                   /\ Usable(registeredCards[sel[i] + 1])
                   /\ ask <= balances[sel[i] + 1]
         IN  IF ~ok THEN << Debit(sel[i], ask, FALSE) >>
             ELSE << Debit(sel[i], ask, TRUE) >>
                      \o FixedPlan(sel, amounts, i + 1,
                             [balances EXCEPT ![sel[i] + 1] = @ - ask])

\* C12: a suspended call holds the explicit amounts when the caller gave
\* some, whatever the profile's ratio; else the amounts derived from the
\* ratio of the named profile when it has one; else none.  Its cards are
\* the named profile's whenever a profile is named.  Once resumed, a call
\* that holds amounts debits by them (or debits nothing, when their count
\* or sum is refused), and a call that holds none fills sequentially.
C12_StrategySelection ==
    [][/\ (nextId' = nextId + 1 /\ pending' # pending) =>
             \A t \in CallTotals :
                 toFixed2(t) = Called.total
                 => \A n \in CallNames, c \in CallSelections, s \in CallSplits :
                       ProcessPaymentCall(t, c, s, n)
                       => LET q == CHOOSE q \in pending' \ pending : TRUE
                              named == n # NullName
                              profile == paymentProfiles[n]
                          IN  /\ q.cardIndices = IF named THEN profile.cardIndices ELSE c
                              /\ IF s.given THEN q.customSplitAmounts = s
                                 ELSE IF named /\ profile.splitRatio.given
                                 THEN /\ q.customSplitAmounts.given
                                      /\ Len(q.customSplitAmounts.amounts)
                                             = Len(profile.splitRatio.amounts)
                                      /\ SumSeq(q.customSplitAmounts.amounts)
                                             = Cents(q.totalAmount)
                                      /\ \A i \in 2..Len(profile.splitRatio.amounts) :
                                            NearestCents(q.customSplitAmounts.amounts[i],
                                                q.totalAmount * profile.splitRatio.amounts[i])
                                 ELSE q.customSplitAmounts = Null
       /\ \A p \in pending, above \in BOOLEAN :
             ProcessPaymentResume(p, above)
             => LET debits == AfterAwait(p, above).debits
                    amounts == Rounded(p.customSplitAmounts.amounts)
                    off == Abs(SumSeq(amounts) - p.totalAmount)
                IN  IF ~p.customSplitAmounts.given
                    THEN debits = SequentialPlan(p.cardIndices, 1, p.totalAmount, Balances)
                    ELSE IF Len(amounts) # Len(p.cardIndices) \/ off > 1
                    THEN debits = <<>>
                    ELSE \/ debits = FixedPlan(p.cardIndices, amounts, 1, Balances)
                         \/ off = 1 /\ debits = <<>>
    ]_vars

\* a call that named a profile with a ratio and gave amounts of its own has
\* succeeded by its own amounts: the profile's two cards were charged 2 and
\* 1 cents, which no ratio of the profiles drawn derives
C12_Witness ==
    /\ paymentProfiles["p"].saved
    /\ paymentProfiles["p"].splitRatio.given
    /\ \E k \in Entries :
          LET e == transactionHistory[k]
          IN  /\ e.transactionId = 1
              /\ e.status = "SUCCESS"
              /\ e.cardIndices = paymentProfiles["p"].cardIndices
              /\ Len(e.charges) = 2
              /\ e.charges[1].amountCharged = 2
              /\ e.charges[2].amountCharged = 1


----------------------------------------------------------------------------
(* Properties of the ledger and of error handling, under Spec *)

\* the messages of the input errors of processPayment
InputErrorTexts ==
    { "Total amount must be greater than zero",
      "Please provide between 1 and 3 cards",
      "Invalid card index",
      "Payment profile not found",
      "Number of split amounts must match number of cards",
      "Sum of split amounts does not equal total amount" }

\* the step is one of processPayment (its part before or after the await)
\* and the call ends in it, rejected with an input error
RejectsInputError ==
    /\ nextId' # nextId \/ pending' # pending \/ returned' # returned
    /\ returned'.op = "processPayment"
    /\ ~returned'.success
    /\ returned'.message.text \in InputErrorTexts

\* C13: a processPayment call rejected with an input error leaves the card
\* balances, the profile store and the transaction ledger as they were.
C13_InputErrorsMutateNothing ==
    [][RejectsInputError
          => /\ registeredCards' = registeredCards
             /\ paymentProfiles' = paymentProfiles
             /\ transactionHistory' = transactionHistory
    ]_vars

\* what of C13 the code does keep: balances and profiles
C13_InputErrorsKeepCardsAndProfiles ==
    [][RejectsInputError
          => /\ registeredCards' = registeredCards
             /\ paymentProfiles' = paymentProfiles
    ]_vars


\* C14: a record enters the ledger as SUCCESS or FAILED when it is a
\* payment's and as REFUND when it is a refund's, never as PENDING; the only
\* change of status a record ever undergoes is SUCCESS to REFUNDED, so a
\* FAILED, REFUNDED or REFUND record keeps its status in every step of every
\* interleaving of processPayment and refundTransaction.
C14_StatusStateMachine ==
    [][/\ Len(transactionHistory') >= Len(transactionHistory)
       /\ \A k \in Entries :
             \/ transactionHistory'[k].status = transactionHistory[k].status
             \/ /\ transactionHistory[k].status = "SUCCESS"
                /\ transactionHistory'[k].status = "REFUNDED"
       /\ \A k \in (Len(transactionHistory) + 1)..Len(transactionHistory') :
             IF returned'.op = "refundTransaction"
             THEN transactionHistory'[k].status = "REFUND"
             ELSE transactionHistory'[k].status \in { "SUCCESS", "FAILED" }
    ]_vars

\* the ledger holds a payment that went from SUCCESS to REFUNDED, its
\* REFUND record after it, and a FAILED payment, and the last refund asked
\* for was refused
C14_Witness ==
    /\ returned.op = "refundTransaction"
    /\ ~returned.success
    /\ \E a, b, c \in Entries :
          /\ transactionHistory[a].status = "REFUNDED"
          /\ transactionHistory[b].status = "REFUND"
          /\ a < b
          /\ transactionHistory[c].status = "FAILED"


\* the balances of the cards the suspended call p selected
BalancesOf(p) ==
    [i \in 1..Len(p.cardIndices) |->
        registeredCards[p.cardIndices[i] + 1].availableBalance]

\* C15: while a processPayment call is between its reading of the selected
\* cards' balances for the aggregate-funds check and its debits (it is
\* suspended, and stays so in this step), no step changes the balance of any
\* of the cards it selected.
C15_NoBalanceChangeWhileInFlight ==
    [][\A p \in pending \cap pending' : BalancesOf(p)' = BalancesOf(p)]_vars


\* C16: when a debit of the suspended call p fails, the FAILED record the
\* step appends carries as its charges the receipts of the debits that had
\* succeeded before it, the list the caller gets as partialCharges.
C16_FailedEntryCarriesPartialCharges ==
    [][\A p \in pending, above \in BOOLEAN :
          /\ ProcessPaymentResume(p, above)
          /\ AfterAwait(p, above).message.text = "Failed to charge card"
          /\ Logs("FAILED")
          => transactionHistory'[Len(transactionHistory')].charges
                 = AfterAwait(p, above).charges
    ]_vars


----------------------------------------------------------------------------
(* Conservation of money between the cards and the ledger *)

\* what the SUCCESS records of a ledger charged to card c
SuccessCharged(history, c) ==
    SumSeq([k \in 1..Len(history) |->
               IF history[k].status = "SUCCESS"
               THEN ChargedTo(history[k].charges, c) ELSE 0])

\* C20: for each registered card, its initial balance less its current
\* balance is what the SUCCESS records of the ledger charged to it.  A card
\* enters the registry with its initial balance and no record, so this is:
\* every step keeps, for each card, the sum of its balance and of what the
\* SUCCESS records charged to it, and a card just registered has no charge
\* recorded.
C20_MoneyConservation ==
    [][/\ \A k \in 1..Len(registeredCards) :
             registeredCards'[k].availableBalance
                     + SuccessCharged(transactionHistory', k - 1)
                 = registeredCards[k].availableBalance
                     + SuccessCharged(transactionHistory, k - 1)
       /\ \A k \in (Len(registeredCards) + 1)..Len(registeredCards') :
             SuccessCharged(transactionHistory', k - 1) = 0
    ]_vars


----------------------------------------------------------------------------
(* Properties of compensation, under SpecThree *)

\* what the successful debits of a list of charge() calls took from card c
Debited(debits, c) ==
    SumSeq([i \in 1..Len(debits) |->
               IF debits[i].cardIndex = c /\ debits[i].success
               THEN debits[i].amount ELSE 0])

\* what a list of compensating credits gave to card c
Credited(credits, c) ==
    SumSeq([i \in 1..Len(credits) |->
               IF credits[i].cardIndex = c THEN credits[i].amount ELSE 0])

\* C17: when a debit of the resumed call fails, whichever mode the call is
\* in and whether or not an earlier card was skipped, each card is credited
\* exactly what this attempt had debited from it (so a card that was not
\* debited is not credited, and every balance is back where it was), and
\* the failed debit is the last charge() call of the attempt.
C17_CompensationMatchesDebits ==
    [][\A p \in pending, above \in BOOLEAN :
          LET r == AfterAwait(p, above)
          IN  /\ ProcessPaymentResume(p, above)
              /\ \E i \in 1..Len(r.debits) : ~r.debits[i].success
              => /\ \A c \in 0..(Len(registeredCards) - 1) :
                        Credited(r.credits, c) = Debited(r.debits, c)
                 /\ Balances' = Balances
                 /\ \A i \in 1..(Len(r.debits) - 1) : r.debits[i].success
    ]_vars


----------------------------------------------------------------------------
(* Properties of the ledger's records, under Spec *)

\* a record but for the two fields a refund writes
Recorded(e) == [e EXCEPT !.status = "", !.refundTransactionId = 0]

\* C18: every step leaves each record of the ledger at its position and
\* removes none, so new records come only after the existing ones, and
\* getTransactionHistory gives the records in the order they were recorded
\* in (which need not be the order of their ids).
C18_LedgerAppendOnly ==
    [][/\ Len(getTransactionHistory') >= Len(getTransactionHistory)
       /\ \A k \in 1..Len(getTransactionHistory) :
             Recorded(getTransactionHistory'[k]) = Recorded(getTransactionHistory[k])
    ]_vars

\* two calls were suspended together and the later one was recorded first;
\* a third record was appended after both
C18_Witness ==
    /\ Len(getTransactionHistory) >= 3
    /\ getTransactionHistory[1].transactionId > getTransactionHistory[2].transactionId


\* the positions of the records with this id
Named(transactionId) ==
    { k \in Entries : transactionHistory[k].transactionId = transactionId }

\* C19: in every state, a record is REFUNDED exactly when it carries a
\* refundTransactionId; that id then names exactly one record, a REFUND
\* record with the amount and the charges of the original; and every REFUND
\* record is the one its original, already REFUNDED, names, with the credits
\* of the refund applied in the same step as both records were written.
C19_RefundedIffBackReference ==
    /\ \A k \in Entries :
          LET e == transactionHistory[k]
          IN  /\ e.status = "REFUNDED" <=> e.refundTransactionId # 0
              /\ e.status = "REFUNDED"
                 => /\ Cardinality(Named(e.refundTransactionId)) = 1
                    /\ \A m \in Named(e.refundTransactionId) :
                          /\ transactionHistory[m].status = "REFUND"
                          /\ transactionHistory[m].amount = e.amount
                          /\ transactionHistory[m].charges = e.charges
    /\ \A m \in Entries :
          transactionHistory[m].status = "REFUND"
          => \E k \in Entries :
                /\ transactionHistory[k].transactionId = transactionHistory[m].message.arg
                /\ transactionHistory[k].status = "REFUNDED"
                /\ transactionHistory[k].refundTransactionId
                       = transactionHistory[m].transactionId

\* a payment was refunded and another payment has succeeded since
C19_Witness ==
    \E a, b, c \in Entries :
        /\ a < b /\ b < c
        /\ transactionHistory[a].status = "REFUNDED"
        /\ transactionHistory[b].status = "REFUND"
        /\ transactionHistory[a].refundTransactionId = transactionHistory[b].transactionId
        /\ transactionHistory[c].status = "SUCCESS"

====
